---- MODULE Spec2Model ----
(***************************************************************************)
(* Model of the pull-request gatekeeper action (src/src/main.ts).          *)
(*                                                                         *)
(* One run of run() is a sequence of steps separated by the awaits of the  *)
(* external calls: context validation, listSuitesForRef, listForSuite,     *)
(* checks.update, pulls.get, the scan of title and body, the comment POST. *)
(* The check suites and check runs of the head commit live on the server   *)
(* and are the only state that survives from one run to the next.          *)
(*                                                                         *)
(* A text is a sequence of one-character strings; a reference token is a   *)
(* string such as "#11".  JavaScript null/undefined arrays and texts are   *)
(* the value NULL, which is no text and no token list.                     *)
(***************************************************************************)
EXTENDS Integers, Sequences, FiniteSets, TLC

VARIABLES
  payload,        \* context.payload of the triggering event (immutable)
  checkSuites,    \* server: the check suites of the head commit, with their runs
  perPage,        \* server: number of check runs one listForSuite page holds
  prLabels,       \* server: the labels of the pull request
  pc,             \* position of run()
  pending,        \* githubActionsSuites still to be processed (suite indices)
  queue,          \* checkCommitsMessageRuns still to be updated (run ids)
  updates,        \* ids of the check runs for which checks.update was issued
  labels,         \* result of getPullRequestLabels, NULL before the fetch
  gate,           \* START, SKIPPED, MISSING_REFERENCE or SATISFIED
  scanned,        \* TRUE once title and body went through getIssuesIdsFromText
  issuesIds,      \* issuesIdsInPullRequest
  posts,          \* comment bodies handed to the comment poster in this run
  failures,       \* messages passed to core.setFailed in this run
  calls,          \* external calls of this run, in the order they were issued
  returns,        \* executions of markPreviousRunsAsNeutral that returned normally
  events,         \* triggering events handled or in progress
  responses,      \* statuses of the comment responses received in this run
  program,        \* the script whose run() executes: main.ts or one of the drafts
  action,         \* context.payload.action, read by the drafts
  ownerName,      \* context.payload.owner?.name, read by the first script of part_002
  commits,        \* server: the commit messages of the pull request, in order
  reported,       \* commits written to console.error as lacking a reference
  rerequests,     \* check suites for which checks.rerequestSuite was issued
  call            \* a function of main.ts called on its own: arguments and result

vars == <<payload, checkSuites, perPage, prLabels, pc, pending, queue, updates, labels,
          gate, scanned, issuesIds, posts, failures, calls, returns, events,
          responses, program, action, ownerName, commits, reported, rerequests, call>>

\* what the steps of main.ts's run() never touch
drafts == <<program, action, ownerName, commits, reported, rerequests, call>>

-----------------------------------------------------------------------------
(* Bounds of the model *)

MaxSuites == 2
MaxRuns == 2
MaxLabels == 2
MaxTextLen == 2
MaxEvents == 2
MaxScanLen == 4
MaxArrays == 2
MaxArrayLen == 2
MaxIds == 3
MaxCommits == 2

(* Program constants *)

RunsCeiling == 250
FirstNonSuccessStatus == 300

NULL == <<"null">>
UNDEFINED == "undefined"

ActionsApp == "GitHub Actions"
CheckName == "Check Commit Messages"
SkipLabel == "skip-issue"
Neutral == "neutral"
NoConclusion == "null"

MsgNotAPullRequest ==
  "Missing pull request data in the context object. This action must be used with a PR."
MsgNoReference == "The pull request doesn't reference any issue."
MsgProgramFlow == "Program flow error: issues ids must be present here."
MsgTooManyRuns == "More than 250 check runs are not supported"
MsgEmptyIds == "Expected a populated array of issues ids."
\* the TypeError of pull_request?.head.sha on a pull request without head: its
\* text depends on the engine and on head being undefined or null
MsgsHeadUndefined ==
  { "Cannot read property 'sha' of undefined",
    "Cannot read property 'sha' of null",
    "Cannot read properties of undefined (reading 'sha')",
    "Cannot read properties of null (reading 'sha')" }
MsgCommentStatus(status) ==
  "Comment response does not indicate success " \o ToString(status)
MsgApiError == "HttpError"
MsgAnyMissing == "One or more commit messages don't refer any issue."
MsgSomeMissing == "Some commit messages do not refer any issue."
MsgMissingValue == "Missing value"
MsgDataNotAFunction == "response.data is not a function"

-----------------------------------------------------------------------------
(* Pure functions *)

Min(a, b) == IF a < b THEN a ELSE b

Digits == {"1", "2"}
Chars == {"#", "1", "2", "a"}

\* requireValue: the value when it is truthy, otherwise the thrown message
MissingValue(hint) == "Missing value for " \o hint

\* variant: only undefined counts as missing, the empty string passes
requireValue_undefinedOnly(value) == value # UNDEFINED

requireValue(value) == value # UNDEFINED /\ value # ""

\* end of the maximal run of digits that starts at position i
RECURSIVE DigitsEnd(_, _)
DigitsEnd(text, i) ==
  IF i <= Len(text) /\ text[i] \in Digits THEN DigitsEnd(text, i + 1) ELSE i

RECURSIVE Concat(_, _, _)
Concat(text, i, j) == IF i >= j THEN "" ELSE text[i] \o Concat(text, i + 1, j)

\* text.match(/(#\d+)/g) from position i on; <<>> stands for the null of no match
RECURSIVE Match(_, _)
Match(text, i) ==
  IF i > Len(text) THEN <<>>
  ELSE IF text[i] = "#" /\ DigitsEnd(text, i + 1) > i + 1
       THEN <<Concat(text, i, DigitsEnd(text, i + 1))>>
              \o Match(text, DigitsEnd(text, i + 1))
       ELSE Match(text, i + 1)

\* variant: the pattern /(#\d*)/g, which also matches a '#' without digits
RECURSIVE MatchBareHash(_, _)
MatchBareHash(text, i) ==
  IF i > Len(text) THEN <<>>
  ELSE IF text[i] = "#"
       THEN <<Concat(text, i, DigitsEnd(text, i + 1))>>
              \o MatchBareHash(text, DigitsEnd(text, i + 1))
       ELSE MatchBareHash(text, i + 1)

getIssuesIdsFromText_bareHash(text) ==
  IF text = NULL \/ Len(text) = 0 \/ ~(\E i \in 1..Len(text) : text[i] = "#")
  THEN NULL
  ELSE MatchBareHash(text, 1)

\* variant: the pattern without the g flag, the first match only
getIssuesIdsFromText_firstOnly(text) ==
  IF text = NULL \/ Len(text) = 0 \/ ~(\E i \in 1..Len(text) : text[i] = "#")
  THEN NULL
  ELSE IF Match(text, 1) = <<>> THEN NULL ELSE <<Match(text, 1)[1]>>

getIssuesIdsFromText(text) ==
  IF text = NULL \/ Len(text) = 0 \/ ~(\E i \in 1..Len(text) : text[i] = "#")
  THEN NULL
  ELSE IF Match(text, 1) = <<>> THEN NULL ELSE Match(text, 1)

RECURSIVE MergeFrom(_, _)
MergeFrom(values, arrays) ==
  IF arrays = <<>> THEN values
  ELSE IF Head(arrays) = NULL THEN MergeFrom(values, Tail(arrays))
       ELSE MergeFrom((IF values = NULL THEN <<>> ELSE values) \o Head(arrays),
                      Tail(arrays))

\* variant: values starts as the empty array
mergeArrays_fromEmpty(arrays) == MergeFrom(<<>>, arrays)

\* variant: values is replaced by each array instead of concatenated with it
mergeArrays_lastOnly(arrays) ==
  LET present == { i \in 1..Len(arrays) : arrays[i] # NULL }
  IN IF present = {} THEN NULL
     ELSE arrays[CHOOSE i \in present : \A j \in present : j <= i]

mergeArrays(arrays) == MergeFrom(NULL, arrays)

\* self.indexOf(item)
IndexOf(array, item) == CHOOSE i \in 1..Len(array) :
                          /\ array[i] = item
                          /\ \A j \in 1..(i - 1) : array[j] # item

RECURSIVE DistinctFrom(_, _)
DistinctFrom(array, i) ==
  IF i > Len(array) THEN <<>>
  ELSE (IF IndexOf(array, array[i]) = i THEN <<array[i]>> ELSE <<>>)
         \o DistinctFrom(array, i + 1)

\* variant: the filter keeps every item
distinct_keepAll(array) == array

distinct(array) == DistinctFrom(array, 1)

\* variant: only the length is tested, null passes as populated
emptyOrNull_lengthOnly(array) == array # NULL /\ Len(array) = 0

\* variant: a single item counts as none
emptyOrNull_single(array) == array = NULL \/ Len(array) <= 1

emptyOrNull(array) == array = NULL \/ Len(array) = 0

\* what a function that throws hands to its caller instead of a value
Thrown(message) == <<"throw", message>>

IsThrown(value) == Len(value) = 2 /\ value[1] = "throw"

getIssuesIdsFromPullRequestProperties(pullRequest) ==
  IF ~pullRequest.present
  THEN Thrown(MsgNotAPullRequest)
  ELSE mergeArrays(<<getIssuesIdsFromText(pullRequest.title),
                     getIssuesIdsFromText(pullRequest.body)>>)

\* variant: the loop returns after looking at the first label
skipValidation_firstLabelOnly(labelList) ==
  Len(labelList) > 0 /\ labelList[1] = SkipLabel

skipValidation(labelList) ==
  \E i \in 1..Len(labelList) : labelList[i] = SkipLabel

RECURSIVE Join(_, _)
Join(array, sep) ==
  IF array = <<>> THEN ""
  ELSE IF Len(array) = 1 THEN array[1]
       ELSE array[1] \o sep \o Join(Tail(array), sep)

Emojis == ":sparkles: :cake: :sparkles:"

\* variant: the plural form for every array
getPositiveCommentBody_alwaysPlural(distinctIssuesIds) ==
  "Great! The PR references these issues: "
    \o Join(distinctIssuesIds, ", ") \o " " \o Emojis

\* getPositiveCommentBody for a populated array (the empty array throws)
getPositiveCommentBody(distinctIssuesIds) ==
  IF Len(distinctIssuesIds) = 1
  THEN "Great! The PR references this issue: " \o distinctIssuesIds[1]
         \o " " \o Emojis
  ELSE "Great! The PR references these issues: "
         \o Join(distinctIssuesIds, ", ") \o " " \o Emojis

-----------------------------------------------------------------------------
(* The server's check suites and check runs *)

RunKinds ==
  { [name |-> CheckName, status |-> "completed", conclusion |-> "failure"],
    [name |-> CheckName, status |-> "in_progress", conclusion |-> NoConclusion],
    [name |-> "Build", status |-> "completed", conclusion |-> "success"] }

SeqsUpTo(S, n) == UNION { [1..k -> S] : k \in 0..n }

\* what the total_count of a suite can be: its materialised runs, or these
\* padded with further runs of other checks up to and just over the ceiling
TotalCounts(app, runs) ==
  IF app = ActionsApp THEN {Len(runs), RunsCeiling, RunsCeiling + 1}
  ELSE {Len(runs)}

Suites(maxRuns) ==
  UNION { UNION { { [app |-> a, check_runs |-> r, total_count |-> t]
                    : t \in TotalCounts(a, r) }
                  : r \in SeqsUpTo(RunKinds, maxRuns) }
          : a \in {ActionsApp, "Dependabot"} }

\* the page of check runs a listForSuite call returns for a suite
Page(suite) == SubSeq(suite.check_runs, 1, Min(Len(suite.check_runs), perPage))

\* variant: the comparison is >= instead of >
ExceedsCeiling_inclusive(total_count) == total_count >= RunsCeiling

ExceedsCeiling(total_count) == total_count > RunsCeiling

\* variant: the filter forgets the status
IsCheckCommitsMessageRun_anyStatus(item) == item.name = CheckName

\* the filter of checkCommitsMessageRuns
IsCheckCommitsMessageRun(item) ==
  item.name = CheckName /\ item.status = "completed"

\* ids <<suite, run>> of the runs of a page that pass the filter, in page order
RECURSIVE FilterRuns(_, _, _)
FilterRuns(s, page, i) ==
  IF i > Len(page) THEN <<>>
  ELSE (IF IsCheckCommitsMessageRun(page[i]) THEN << <<s, i>> >> ELSE <<>>)
         \o FilterRuns(s, page, i + 1)

\* variant: the filter compares the application's slug, which no name equals
FilterSuites_bySlug(suites, i) ==
  SelectSeq(<<>>, LAMBDA s : suites[s].app = "github-actions")

RECURSIVE FilterSuites(_, _)
FilterSuites(suites, i) ==
  IF i > Len(suites) THEN <<>>
  ELSE (IF suites[i].app = ActionsApp THEN <<i>> ELSE <<>>)
         \o FilterSuites(suites, i + 1)

-----------------------------------------------------------------------------
(* The event payload *)

LabelNames == {SkipLabel, "Skip-Issue"}

Texts(n) == SeqsUpTo(Chars, n)

Strings(value) == {UNDEFINED, "", value}

\* payloads of events that are not about a pull request, or whose pull
\* request has no head or no head sha
NoPullRequest ==
  [present |-> FALSE, head |-> FALSE, sha |-> UNDEFINED, title |-> NULL, body |-> NULL]

PullRequests(heads, shas, titles, bodies) ==
  { [present |-> TRUE, head |-> h, sha |-> IF h THEN s ELSE UNDEFINED,
     title |-> t, body |-> b]
    : h \in heads, s \in shas, t \in titles, b \in bodies }

Payloads(owners, repos, pullRequests) ==
  { [owner |-> o, repo |-> r, pull_request |-> p]
    : o \in owners, r \in repos, p \in pullRequests }

\* payloads with every required field, title and body drawn from the given sets
GoodPayloads(titles, bodies) ==
  Payloads({"octocat"}, {"hello"}, PullRequests({TRUE}, {"abc"}, titles, bodies))

\* payloads in which any of the required fields may be missing
AnyPayloads ==
  Payloads(Strings("octocat"), Strings("hello"),
           {NoPullRequest}
             \cup PullRequests(BOOLEAN, Strings("abc"), {NULL, <<"#", "1">>}, {NULL}))

\* the servers with n check suites and at most maxRuns check runs in all
RECURSIVE ServersWith(_, _)
ServersWith(n, maxRuns) ==
  IF n = 0 THEN { <<>> }
  ELSE UNION { { <<s>> \o rest
                 : rest \in ServersWith(n - 1, maxRuns - Len(s.check_runs)) }
               : s \in Suites(maxRuns) }

Servers(maxSuites, maxRuns) == UNION { ServersWith(n, maxRuns) : n \in 0..maxSuites }

LabelLists == SeqsUpTo(LabelNames, MaxLabels)

\* the server with the one suite of a previous run of this check
SmallServers ==
  { << [app |-> ActionsApp, total_count |-> 1,
        check_runs |-> << [name |-> CheckName, status |-> "completed",
                           conclusion |-> "failure"] >>] >> }

-----------------------------------------------------------------------------
(* run() *)

TypeOK ==
  /\ pc \in {"start", "listSuitesForRef", "listForSuite", "update",
             "getLabels", "post", "done", "rerequestList", "rerequest", "listCommits",
             "pulls.listCommits", "request"}
  /\ gate \in {"START", "SKIPPED", "MISSING_REFERENCE", "SATISFIED"}
  /\ scanned \in BOOLEAN
  /\ returns \in 0..MaxEvents
  /\ events \in 1..MaxEvents
  /\ Len(checkSuites) <= MaxSuites + 1

InitRun ==
  /\ pc = "start"
  /\ pending = <<>>
  /\ queue = <<>>
  /\ updates = <<>>
  /\ labels = NULL
  /\ gate = "START"
  /\ scanned = FALSE
  /\ issuesIds = NULL
  /\ posts = <<>>
  /\ failures = <<>>
  /\ calls = <<>>
  /\ returns = 0
  /\ events = 1
  /\ responses = <<>>
  /\ reported = <<>>
  /\ rerequests = <<>>

\* a call of one function: its arguments, and what came of it
Call(fn, text, arrays, ids) ==
  [fn |-> fn, text |-> text, arrays |-> arrays, ids |-> ids,
   state |-> "called", result |-> NULL, body |-> "", thrown |-> ""]

NoCall == Call("none", NULL, <<>>, <<>>)

\* run() of main.ts on a pull request whose commits it never reads
MainProgram ==
  /\ program = "main.ts"
  /\ action = "opened"
  /\ ownerName = UNDEFINED
  /\ commits = <<>>
  /\ call = NoCall

\* the neutralizer on every shape of check suites, valid context
Init ==
  /\ payload \in GoodPayloads({<<"#", "1">>}, {NULL})
  /\ checkSuites \in Servers(MaxSuites, MaxRuns)
  /\ perPage \in 1..MaxRuns
  /\ prLabels = <<>>
  /\ InitRun
  /\ MainProgram

\* the gate on every title and body, valid context
InitGate ==
  /\ payload \in GoodPayloads({NULL} \cup Texts(MaxTextLen), {NULL} \cup Texts(MaxTextLen))
  /\ checkSuites \in SmallServers
  /\ perPage = MaxRuns
  /\ prLabels \in LabelLists
  /\ InitRun
  /\ MainProgram

\* the comment on every title and body: no label, the skip label, or a
\* label that differs from it in case
InitComment ==
  /\ payload \in GoodPayloads({NULL} \cup Texts(MaxTextLen), {NULL} \cup Texts(MaxTextLen))
  /\ checkSuites \in SmallServers
  /\ perPage = MaxRuns
  /\ prLabels \in {<<>>, <<SkipLabel>>, <<"Skip-Issue">>}
  /\ InitRun
  /\ MainProgram

\* every shape of the context
InitContext ==
  /\ payload \in AnyPayloads
  /\ checkSuites \in SmallServers
  /\ perPage = MaxRuns
  /\ prLabels \in LabelLists
  /\ InitRun
  /\ MainProgram

Range(seq) == { seq[i] : i \in 1..Len(seq) }

Last(seq) == seq[Len(seq)]

\* variant: the failure is signalled where it is thrown and again in the catch
SetFailed_twice(message) ==
  /\ failures' = failures \o <<message, message>>
  /\ pc' = "done"

\* catch (error) { core.setFailed(error.message) }
SetFailed(message) ==
  /\ failures' = Append(failures, message)
  /\ pc' = "done"

\* the synchronous prefix of run() up to the listSuitesForRef call
Start ==
  /\ pc = "start"
  /\ UNCHANGED responses
  /\ UNCHANGED drafts
  /\ UNCHANGED <<payload, checkSuites, perPage, prLabels, pending, queue, updates, labels,
                 gate, scanned, issuesIds, posts, returns, events>>
  /\ IF ~requireValue(payload.owner)
     THEN SetFailed(MissingValue("owner")) /\ UNCHANGED calls
     ELSE IF ~requireValue(payload.repo)
     THEN SetFailed(MissingValue("repository")) /\ UNCHANGED calls
     ELSE IF ~payload.pull_request.present
     THEN SetFailed(MsgNotAPullRequest) /\ UNCHANGED calls
     ELSE IF ~payload.pull_request.head
     THEN (\E message \in MsgsHeadUndefined : SetFailed(message)) /\ UNCHANGED calls
     ELSE IF ~requireValue(payload.pull_request.sha)
     THEN SetFailed(MissingValue("pr_head_sha")) /\ UNCHANGED calls
     ELSE /\ pc' = "listSuitesForRef"
          /\ calls' = Append(calls, "listSuitesForRef")
          /\ UNCHANGED failures

\* the for loop over githubActionsSuites moves on to the suites in rest;
\* after the last suite markPreviousRunsAsNeutral returns and run() calls pulls.get
NextSuite(rest) ==
  /\ pending' = rest
  /\ IF rest = <<>>
     THEN /\ pc' = "getLabels"
          /\ returns' = returns + 1
          /\ calls' = Append(calls, "pulls.get")
     ELSE /\ pc' = "listForSuite"
          /\ returns' = returns
          /\ calls' = Append(calls, "listForSuite")

\* the response of listSuitesForRef and the filter on the owning application
ListSuitesForRef ==
  /\ pc = "listSuitesForRef"
  /\ UNCHANGED responses
  /\ UNCHANGED drafts
  /\ UNCHANGED <<payload, checkSuites, perPage, prLabels, queue, updates, labels, gate,
                 scanned, issuesIds, posts, events>>
  /\ \E ok \in BOOLEAN :
       IF ~ok
       THEN SetFailed(MsgApiError) /\ UNCHANGED <<pending, calls, returns>>
       ELSE NextSuite(FilterSuites(checkSuites, 1)) /\ UNCHANGED failures

\* the response of listForSuite for the suite at the head of the loop
ListForSuite ==
  /\ pc = "listForSuite"
  /\ UNCHANGED responses
  /\ UNCHANGED drafts
  /\ UNCHANGED <<payload, checkSuites, perPage, prLabels, updates, labels, gate, scanned,
                 issuesIds, posts, events>>
  /\ \E ok \in BOOLEAN :
       LET s == Head(pending)
           runs == FilterRuns(s, Page(checkSuites[s]), 1)
       IN IF ~ok
          THEN SetFailed(MsgApiError) /\ UNCHANGED <<pending, queue, calls, returns>>
          ELSE IF ExceedsCeiling(checkSuites[s].total_count)
          THEN SetFailed(MsgTooManyRuns) /\ UNCHANGED <<pending, queue, calls, returns>>
          ELSE IF runs = <<>>
          THEN NextSuite(Tail(pending)) /\ UNCHANGED <<queue, failures>>
          ELSE /\ queue' = runs
               /\ pc' = "update"
               /\ calls' = Append(calls, "checks.update")
               /\ UNCHANGED <<pending, returns, failures>>

\* variant: the call sits in a try/catch that logs the error and goes on
UpdateResult_swallowed(ok) == IF ok THEN "updated" ELSE "skipped"

\* what becomes of one awaited checks.update call
UpdateResult(ok) == IF ok THEN "updated" ELSE "thrown"

\* the response of checks.update for the run at the head of checkCommitsMessageRuns
UpdateCheckRun ==
  /\ pc = "update"
  /\ UNCHANGED responses
  /\ UNCHANGED drafts
  /\ UNCHANGED <<payload, perPage, prLabels, labels, gate, scanned, issuesIds, posts,
                 events>>
  /\ updates' = Append(updates, Head(queue))
  /\ \E ok \in BOOLEAN :
       LET id == Head(queue)
       IN IF UpdateResult(ok) = "thrown"
          THEN /\ SetFailed(MsgApiError)
               /\ UNCHANGED <<checkSuites, pending, queue, calls, returns>>
          ELSE /\ checkSuites' =
                    IF UpdateResult(ok) = "updated"
                    THEN [checkSuites EXCEPT
                            ![id[1]].check_runs[id[2]].conclusion = Neutral]
                    ELSE checkSuites
               /\ queue' = Tail(queue)
               /\ UNCHANGED failures
               /\ IF Tail(queue) = <<>>
                  THEN NextSuite(Tail(pending))
                  ELSE /\ pc' = "update"
                       /\ calls' = Append(calls, "checks.update")
                       /\ UNCHANGED <<pending, returns>>

\* the response of pulls.get, the label gate, the scan of title and body, the
\* decision, and the hand-over of the comment body to the poster (the request
\* 'POST /repos/:owner/:repo/pull/:pull_number/comments')
Validate ==
  /\ pc = "getLabels"
  /\ UNCHANGED responses
  /\ UNCHANGED drafts
  /\ UNCHANGED <<payload, checkSuites, perPage, prLabels, pending, queue, updates,
                 returns, events>>
  /\ \E ok \in BOOLEAN :
       LET ls == prLabels
           ids == getIssuesIdsFromPullRequestProperties(payload.pull_request)
       IN IF ~ok
          THEN /\ SetFailed(MsgApiError)
               /\ UNCHANGED <<labels, gate, scanned, issuesIds, posts, calls>>
          ELSE /\ labels' = ls
               /\ IF skipValidation(ls)
                  THEN /\ gate' = "SKIPPED"
                       /\ pc' = "done"
                       /\ UNCHANGED <<scanned, issuesIds, posts, calls, failures>>
                  ELSE IF IsThrown(ids)
                  THEN /\ SetFailed(ids[2])
                       /\ UNCHANGED <<gate, scanned, issuesIds, posts, calls>>
                  ELSE /\ scanned' = TRUE
                       /\ issuesIds' = ids
                       /\ IF emptyOrNull(ids)
                          THEN /\ gate' = "MISSING_REFERENCE"
                               /\ SetFailed(MsgNoReference)
                               /\ UNCHANGED <<posts, calls>>
                          ELSE IF ids = NULL
                          THEN /\ SetFailed(MsgProgramFlow)
                               /\ UNCHANGED <<gate, posts, calls>>
                          ELSE IF Len(distinct(ids)) = 0
                          THEN /\ SetFailed(MsgEmptyIds)
                               /\ UNCHANGED <<gate, posts, calls>>
                          ELSE /\ gate' = "SATISFIED"
                               /\ posts' = Append(posts,
                                             getPositiveCommentBody(distinct(ids)))
                               /\ calls' = Append(calls, "POST comments")
                               /\ pc' = "post"
                               /\ UNCHANGED failures

CommentStatuses == {201, FirstNonSuccessStatus}

\* variant: a status of exactly 300 passes
IsNonSuccess_above(status) == status > FirstNonSuccessStatus

\* commentResponse.status >= 300
IsNonSuccess(status) == status >= FirstNonSuccessStatus

\* variant: a comment that was not accepted is posted once more
CommentResponse_retry ==
  /\ pc = "post"
  /\ UNCHANGED drafts
  /\ UNCHANGED <<payload, checkSuites, perPage, prLabels, pending, queue, updates, labels,
                 gate, scanned, issuesIds, returns, events>>
  /\ \E ok \in BOOLEAN, status \in CommentStatuses :
       IF ~ok
       THEN SetFailed(MsgApiError) /\ UNCHANGED <<responses, posts, calls>>
       ELSE /\ responses' = Append(responses, status)
            /\ IF IsNonSuccess(status) /\ Len(posts) < 2
               THEN /\ posts' = Append(posts, Last(posts))
                    /\ calls' = Append(calls, "POST comments")
                    /\ UNCHANGED <<pc, failures>>
               ELSE /\ UNCHANGED <<posts, calls>>
                    /\ IF IsNonSuccess(status)
                       THEN SetFailed(MsgCommentStatus(status))
                       ELSE pc' = "done" /\ UNCHANGED failures

\* the response of the comment POST
CommentResponse ==
  /\ pc = "post"
  /\ UNCHANGED drafts
  /\ UNCHANGED <<payload, checkSuites, perPage, prLabels, pending, queue, updates, labels,
                 gate, scanned, issuesIds, posts, calls, returns, events>>
  /\ \E ok \in BOOLEAN, status \in CommentStatuses :
       IF ~ok
       THEN SetFailed(MsgApiError) /\ UNCHANGED responses
       ELSE /\ responses' = Append(responses, status)
            /\ IF IsNonSuccess(status)
               THEN SetFailed(MsgCommentStatus(status))
               ELSE pc' = "done" /\ UNCHANGED failures

\* the check suite is re-run: run() starts again on the same payload, against
\* the check runs as the previous run left them
NewEvent ==
  /\ pc = "done"
  /\ events < MaxEvents
  /\ events' = events + 1
  /\ pc' = "start"
  /\ pending' = <<>>
  /\ queue' = <<>>
  /\ updates' = <<>>
  /\ labels' = NULL
  /\ gate' = "START"
  /\ scanned' = FALSE
  /\ issuesIds' = NULL
  /\ posts' = <<>>
  /\ failures' = <<>>
  /\ calls' = <<>>
  /\ responses' = <<>>
  /\ UNCHANGED drafts
  /\ UNCHANGED <<payload, checkSuites, perPage, prLabels, returns>>

Next ==
  \/ Start
  \/ ListSuitesForRef
  \/ ListForSuite
  \/ UpdateCheckRun
  \/ Validate
  \/ CommentResponse
  \/ NewEvent

Spec == Init /\ [][Next]_vars

SpecGate == InitGate /\ [][Next]_vars

SpecComment == InitComment /\ [][Next]_vars

SpecContext == InitContext /\ [][Next]_vars

\* a suite with two runs to neutralize, one over the ceiling, one of another
\* application
OutcomeSuites ==
  { [app |-> ActionsApp, total_count |-> 2,
     check_runs |-> << [name |-> CheckName, status |-> "completed",
                        conclusion |-> "failure"],
                       [name |-> CheckName, status |-> "completed",
                        conclusion |-> "failure"] >>],
    [app |-> ActionsApp, total_count |-> RunsCeiling + 1, check_runs |-> <<>>],
    [app |-> "Dependabot", total_count |-> 1,
     check_runs |-> << [name |-> "Build", status |-> "completed",
                        conclusion |-> "success"] >>] }

\* whole runs: with and without head sha, reference and skip label, on
\* sequences of these suites
InitOutcomes ==
  /\ payload \in Payloads({"octocat"}, {"hello"},
                          PullRequests({TRUE}, {"", "abc"}, {NULL, <<"#", "1">>}, {NULL}))
  /\ checkSuites \in SeqsUpTo(OutcomeSuites, MaxSuites)
  /\ perPage = MaxRuns
  /\ prLabels \in {<<>>, <<SkipLabel>>}
  /\ InitRun
  /\ MainProgram

\* the steps of one run: each is the continuation of an awaited call, which
\* returns or fails
RunStep ==
  \/ Start
  \/ ListSuitesForRef
  \/ ListForSuite
  \/ UpdateCheckRun
  \/ Validate
  \/ CommentResponse

\* every awaited call is answered; a new event may or may not come
SpecOutcomes == InitOutcomes /\ [][Next]_vars /\ WF_vars(RunStep)

-----------------------------------------------------------------------------
(* The functions of main.ts, each called on its own *)

runVars == <<payload, checkSuites, perPage, prLabels, pc, pending, queue, updates, labels,
             gate, scanned, issuesIds, posts, failures, calls, returns, events, responses>>

Tokens == {"#1", "#2"}

\* commit messages: without '#', with a bare '#', with one reference, with two
CommitMessages == { <<"a">>, <<"#", "a">>, <<"#", "1">>, <<"a", "#", "2">>,
                    <<"#", "1", "#", "2">> }

Calls ==
  { Call("getIssuesIdsFromText", text, <<>>, <<>>) :
      text \in {NULL} \cup SeqsUpTo(Chars, MaxScanLen) }
  \cup { Call("mergeArrays", NULL, arrays, <<>>) :
           arrays \in SeqsUpTo({NULL} \cup SeqsUpTo(Tokens, MaxArrayLen), MaxArrays) }
  \cup { Call("getPositiveCommentBody", NULL, <<>>, ids) : ids \in SeqsUpTo(Tokens, MaxIds) }

InitFunctions ==
  /\ payload \in GoodPayloads({NULL}, {NULL})
  /\ checkSuites \in SmallServers
  /\ perPage = MaxRuns
  /\ prLabels = <<>>
  /\ InitRun
  /\ program = "main.ts"
  /\ action = "opened"
  /\ ownerName = UNDEFINED
  /\ \/ call \in Calls /\ commits = <<>>
     \/ /\ call = Call("getIssueIdsFromCommitMessages", NULL, <<>>, <<>>)
        /\ commits \in SeqsUpTo(CommitMessages, MaxCommits)

GetIssuesIdsFromText ==
  /\ call.fn = "getIssuesIdsFromText" /\ call.state = "called"
  /\ call' = [call EXCEPT !.state = "returned",
                          !.result = getIssuesIdsFromText(call.text)]
  /\ UNCHANGED <<runVars, program, action, ownerName, commits, reported, rerequests>>

MergeArrays ==
  /\ call.fn = "mergeArrays" /\ call.state = "called"
  /\ call' = [call EXCEPT !.state = "returned", !.result = mergeArrays(call.arrays)]
  /\ UNCHANGED <<runVars, program, action, ownerName, commits, reported, rerequests>>

\* distinct(issuesIds), applied by run() to what mergeArrays returned once it
\* is known not to be null
Distinct ==
  /\ call.fn = "mergeArrays" /\ call.state = "returned" /\ call.result # NULL
  /\ call' = [call EXCEPT !.state = "distinct", !.ids = distinct(call.result)]
  /\ UNCHANGED <<runVars, program, action, ownerName, commits, reported, rerequests>>

GetPositiveCommentBody ==
  /\ call.fn = "getPositiveCommentBody" /\ call.state = "called"
  /\ call' = IF Len(call.ids) = 0
             THEN [call EXCEPT !.state = "returned", !.thrown = MsgEmptyIds]
             ELSE [call EXCEPT !.state = "returned",
                               !.body = getPositiveCommentBody(call.ids)]
  /\ UNCHANGED <<runVars, program, action, ownerName, commits, reported, rerequests>>

\* items.forEach(...): the commits whose message getIssuesIdsFromText finds
\* nothing in, each written to console.error
RECURSIVE LackingCommits(_, _)
LackingCommits(items, i) ==
  IF i > Len(items) THEN <<>>
  ELSE (IF getIssuesIdsFromText(items[i]) = NULL THEN <<i>> ELSE <<>>)
         \o LackingCommits(items, i + 1)

\* var issueIds = []; nothing is pushed to it; return distinct(issueIds)
getIssueIdsFromCommitMessages(items) ==
  LET issueIds == <<>>
  IN distinct(issueIds)

\* the synchronous prefix of getIssueIdsFromCommitMessages: the paginated
\* request for the commits is issued and awaited
RequestCommits ==
  /\ call.fn = "getIssueIdsFromCommitMessages" /\ call.state = "called"
  /\ call' = [call EXCEPT !.state = "pending"]
  /\ calls' = Append(calls, "GET commits")
  /\ UNCHANGED <<payload, checkSuites, perPage, prLabels, pc, pending, queue, updates,
                 labels, gate, scanned, issuesIds, posts, failures, returns, events,
                 responses>>
  /\ UNCHANGED <<program, action, ownerName, commits, reported, rerequests>>

\* the answer of the request: the forEach over the commits and the return
GetIssueIdsFromCommitMessages ==
  /\ call.fn = "getIssueIdsFromCommitMessages" /\ call.state = "pending"
  /\ UNCHANGED <<runVars, program, action, ownerName, commits, rerequests>>
  /\ \E ok \in BOOLEAN :
       IF ~ok
       THEN /\ call' = [call EXCEPT !.state = "returned", !.thrown = MsgApiError]
            /\ UNCHANGED reported
       ELSE /\ reported' = LackingCommits(commits, 1)
            /\ call' = [call EXCEPT !.state = "returned",
                                    !.ids = getIssueIdsFromCommitMessages(commits)]

NextFunctions ==
  \/ GetIssuesIdsFromText
  \/ MergeArrays
  \/ Distinct
  \/ GetPositiveCommentBody
  \/ RequestCommits
  \/ GetIssueIdsFromCommitMessages

SpecFunctions == InitFunctions /\ [][NextFunctions]_vars

-----------------------------------------------------------------------------
(* The drafts: run() over the commit messages of the pull request *)

Drafts == {"part_000", "part_001", "part_002"}

\* the first of the two scripts of part_002, which only prints the commits
FirstScript == "part_002 (1-93)"

Actions == {"opened", "labeled", "unlabeled"}

\* suites of GitHub Actions that hold one run of this check
DraftSuites ==
  { [app |-> ActionsApp, total_count |-> 1, check_runs |-> <<r>>]
    : r \in { k \in RunKinds : k.name = CheckName } }

\* the status of a suite: completed when all its check runs are
SuiteStatus(suite) ==
  IF \A i \in 1..Len(suite.check_runs) : suite.check_runs[i].status = "completed"
  THEN "completed" ELSE "in_progress"

InitCommits ==
  /\ payload \in GoodPayloads({NULL}, {NULL})
  /\ checkSuites \in SeqsUpTo(DraftSuites, MaxSuites)
  /\ perPage = MaxRuns
  /\ prLabels \in {<<>>, <<SkipLabel>>}
  /\ InitRun
  /\ program \in Drafts \cup {FirstScript}
  /\ action \in Actions
  /\ ownerName \in {UNDEFINED, "octocat"}
  /\ commits \in SeqsUpTo(CommitMessages, MaxCommits)
  /\ call = NoCall

shouldTriggerPreviousChecks(payloadAction) ==
  payloadAction = "labeled" \/ payloadAction = "unlabeled"

\* the drafts' scanner: no test for an absent message
getIssuesIdsFromCommitMessage(message) ==
  IF ~(\E i \in 1..Len(message) : message[i] = "#")
  THEN NULL
  ELSE IF Match(message, 1) = <<>> THEN NULL ELSE Match(message, 1)

\* commits.forEach(...): the commits that set anyMissing, each written to
\* console.error
RECURSIVE CommitsWithout(_, _)
CommitsWithout(items, i) ==
  IF i > Len(items) THEN <<>>
  ELSE (IF getIssuesIdsFromCommitMessage(items[i]) = NULL THEN <<i>> ELSE <<>>)
         \o CommitsWithout(items, i + 1)

\* part_000 and part_001: the synchronous prefix of run() up to its first call
DraftStart ==
  /\ pc = "start"
  /\ program \in {"part_000", "part_001"}
  /\ UNCHANGED <<responses, drafts>>
  /\ UNCHANGED <<payload, checkSuites, perPage, prLabels, pending, queue, updates, labels,
                 gate, scanned, issuesIds, posts, returns, events>>
  /\ IF ~requireValue(payload.owner)
     THEN SetFailed(MissingValue("owner")) /\ UNCHANGED calls
     ELSE IF ~requireValue(payload.repo)
     THEN SetFailed(MissingValue("repository")) /\ UNCHANGED calls
     ELSE IF ~payload.pull_request.present
     THEN SetFailed(MsgNotAPullRequest) /\ UNCHANGED calls
     ELSE IF ~shouldTriggerPreviousChecks(action)
     THEN /\ pc' = "getLabels"
          /\ calls' = Append(calls, "pulls.get")
          /\ UNCHANGED failures
     ELSE IF ~payload.pull_request.head
     THEN (\E message \in MsgsHeadUndefined : SetFailed(message)) /\ UNCHANGED calls
     ELSE IF ~requireValue(payload.pull_request.sha)
     THEN SetFailed(MissingValue("pr_head_sha")) /\ UNCHANGED calls
     ELSE /\ pc' = "rerequestList"
          /\ calls' = Append(calls, "listSuitesForRef")
          /\ UNCHANGED failures

\* let checkSuite = all_check_suites.data.check_suites[0], in iteration i
SuiteOfIteration(i) == 1

\* the for loop of the label branch goes on with the iterations in rest:
\* part_001 passes over the suites that are not completed, and the next
\* rerequestSuite call is issued; after the last iteration run() returns
RerequestLoop(rest) ==
  LET todo == IF program = "part_001"
              THEN SelectSeq(rest, LAMBDA s : SuiteStatus(checkSuites[s]) = "completed")
              ELSE rest
  IN /\ pending' = todo
     /\ IF todo = <<>>
        THEN pc' = "done" /\ UNCHANGED <<calls, rerequests>>
        ELSE /\ pc' = "rerequest"
             /\ calls' = Append(calls, "rerequestSuite")
             /\ rerequests' = Append(rerequests, Head(todo))

\* the response of listSuitesForRef in the label branch
DraftListSuites ==
  /\ pc = "rerequestList"
  /\ UNCHANGED <<responses, program, action, ownerName, commits, reported, call>>
  /\ UNCHANGED <<payload, checkSuites, perPage, prLabels, queue, updates, labels, gate,
                 scanned, issuesIds, posts, returns, events>>
  /\ \E ok \in BOOLEAN :
       IF ~ok
       THEN SetFailed(MsgApiError) /\ UNCHANGED <<pending, calls, rerequests>>
       ELSE /\ RerequestLoop([i \in 1..Len(checkSuites) |-> SuiteOfIteration(i)])
            /\ UNCHANGED failures

\* the response of rerequestSuite: part_000 catches and logs a failure,
\* part_001 lets it reach the catch of run()
DraftRerequest ==
  /\ pc = "rerequest"
  /\ UNCHANGED <<responses, program, action, ownerName, commits, reported, call>>
  /\ UNCHANGED <<payload, checkSuites, perPage, prLabels, queue, updates, labels, gate,
                 scanned, issuesIds, posts, returns, events>>
  /\ \E ok \in BOOLEAN :
       IF ~ok /\ program = "part_001"
       THEN SetFailed(MsgApiError) /\ UNCHANGED <<pending, calls, rerequests>>
       ELSE RerequestLoop(Tail(pending)) /\ UNCHANGED failures

\* the response of pulls.get and the label gate of the drafts
DraftLabels ==
  /\ pc = "getLabels"
  /\ program \in Drafts
  /\ UNCHANGED <<responses, drafts>>
  /\ UNCHANGED <<payload, checkSuites, perPage, prLabels, pending, queue, updates,
                 scanned, issuesIds, posts, returns, events>>
  /\ \E ok \in BOOLEAN :
       IF ~ok
       THEN SetFailed(MsgApiError) /\ UNCHANGED <<labels, gate, calls>>
       ELSE /\ labels' = prLabels
            /\ UNCHANGED failures
            /\ IF skipValidation(prLabels)
               THEN gate' = "SKIPPED" /\ pc' = "done" /\ UNCHANGED calls
               ELSE /\ pc' = "listCommits"
                    /\ calls' = Append(calls, "GET commits")
                    /\ UNCHANGED gate

\* the response of the paginated commits request and the verdict on it:
\* part_000 and part_002 throw inside then(), part_001 calls setFailed after
\* its try blocks and only logs a failure of the request
DraftCommits ==
  /\ pc = "listCommits"
  /\ UNCHANGED <<responses, program, action, ownerName, commits, rerequests, call>>
  /\ UNCHANGED <<payload, checkSuites, perPage, prLabels, pending, queue, updates, labels,
                 issuesIds, posts, calls, returns, events>>
  /\ \E ok \in BOOLEAN :
       LET missing == CommitsWithout(commits, 1)
           anyMissing == missing # <<>>
       IN IF ~ok
          THEN /\ UNCHANGED <<reported, scanned, gate>>
               /\ IF program = "part_001"
                  THEN pc' = "done" /\ UNCHANGED failures
                  ELSE SetFailed(MsgApiError)
          ELSE /\ reported' = missing
               /\ scanned' = TRUE
               /\ IF anyMissing
                  THEN /\ gate' = "MISSING_REFERENCE"
                       /\ SetFailed(IF program = "part_001" THEN MsgSomeMissing
                                    ELSE MsgAnyMissing)
                  ELSE /\ gate' = "SATISFIED"
                       /\ pc' = "done"
                       /\ UNCHANGED failures

\* the first script of part_002: the synchronous prefix of run() up to the
\* pulls.listCommits call; its requireValue takes no hint
FirstScriptStart ==
  /\ pc = "start"
  /\ program = FirstScript
  /\ UNCHANGED <<responses, drafts>>
  /\ UNCHANGED <<payload, checkSuites, perPage, prLabels, pending, queue, updates, labels,
                 gate, scanned, issuesIds, posts, returns, events>>
  /\ IF ~requireValue(ownerName)
     THEN SetFailed(MsgMissingValue) /\ UNCHANGED calls
     ELSE IF ~requireValue(payload.repo)
     THEN SetFailed(MsgMissingValue) /\ UNCHANGED calls
     ELSE IF ~payload.pull_request.present
     THEN SetFailed(MsgNotAPullRequest) /\ UNCHANGED calls
     ELSE /\ pc' = "pulls.listCommits"
          /\ calls' = Append(calls, "pulls.listCommits")
          /\ UNCHANGED failures

\* the response of pulls.listCommits, printed, and the request for the same
\* commits by route
FirstScriptListCommits ==
  /\ pc = "pulls.listCommits"
  /\ UNCHANGED <<responses, drafts>>
  /\ UNCHANGED <<payload, checkSuites, perPage, prLabels, pending, queue, updates, labels,
                 gate, scanned, issuesIds, posts, returns, events>>
  /\ \E ok \in BOOLEAN :
       IF ~ok
       THEN SetFailed(MsgApiError) /\ UNCHANGED calls
       ELSE /\ pc' = "request"
            /\ calls' = Append(calls, "GET commits")
            /\ UNCHANGED failures

\* the response of octokit.request: response.data is the array of commits, and
\* response.data() throws
FirstScriptRequest ==
  /\ pc = "request"
  /\ UNCHANGED <<responses, drafts>>
  /\ UNCHANGED <<payload, checkSuites, perPage, prLabels, pending, queue, updates, labels,
                 gate, scanned, issuesIds, posts, calls, returns, events>>
  /\ \E ok \in BOOLEAN :
       IF ~ok
       THEN SetFailed(MsgApiError)
       ELSE SetFailed(MsgDataNotAFunction)

\* part_002 starts as main.ts does: the context, then markPreviousRunsAsNeutral
DraftNeutralizer ==
  /\ program = "part_002"
  /\ (Start \/ ListSuitesForRef \/ ListForSuite \/ UpdateCheckRun)

NextCommits ==
  \/ DraftStart
  \/ DraftListSuites
  \/ DraftRerequest
  \/ DraftLabels
  \/ DraftCommits
  \/ DraftNeutralizer
  \/ FirstScriptStart
  \/ FirstScriptListCommits
  \/ FirstScriptRequest

SpecCommits == InitCommits /\ [][NextCommits]_vars

-----------------------------------------------------------------------------
(* Vocabulary of the properties, stated without the program's functions *)


Title == payload.pull_request.title
Body == payload.pull_request.body

\* the positions of a text where a '#' is directly followed by a digit
TokenStarts(text) ==
  { i \in 1..Len(text) : text[i] = "#" /\ i < Len(text) /\ text[i + 1] \in Digits }

HasReference(text) == text # NULL /\ TokenStarts(text) # {}

\* the last digit of the token that starts at position i
TokenEnd(text, i) ==
  CHOOSE e \in (i + 1)..Len(text) :
    /\ \A j \in (i + 1)..e : text[j] \in Digits
    /\ e = Len(text) \/ text[e + 1] \notin Digits

RECURSIVE TokensAt(_, _)
TokensAt(text, starts) ==
  IF starts = {} THEN <<>>
  ELSE LET i == CHOOSE m \in starts : \A n \in starts : m <= n
       IN <<Concat(text, i, TokenEnd(text, i) + 1)>> \o TokensAt(text, starts \ {i})

References(text) == IF text = NULL THEN <<>> ELSE TokensAt(text, TokenStarts(text))

\* a sequence without the items that occurred earlier in it
RECURSIVE FirstOccurrences(_)
FirstOccurrences(seq) ==
  IF seq = <<>> THEN <<>>
  ELSE LET init == FirstOccurrences(SubSeq(seq, 1, Len(seq) - 1))
       IN IF Last(seq) \in Range(init) THEN init ELSE Append(init, Last(seq))

LabelsFetched == labels # NULL

\* the check runs the neutralizer is meant for
Targeted(s, r) ==
  /\ checkSuites[s].app = ActionsApp
  /\ checkSuites[s].check_runs[r].name = CheckName
  /\ checkSuites[s].check_runs[r].status = "completed"

RunIds == { <<s, r>> \in (1..(MaxSuites + 1)) \X (1..(MaxRuns + 1)) :
              s <= Len(checkSuites) /\ r <= Len(checkSuites[s].check_runs) }

-----------------------------------------------------------------------------
(* C1..C3: the validation gate *)

\* C1: once the fetched label list holds a label named exactly skip-issue, the
\* run is over in SKIPPED: no text was scanned, no comment was handed to the
\* poster and the run is not marked failed, whatever title and body are.
C1_SkipLabelSkips ==
  (LabelsFetched /\ SkipLabel \in Range(labels)) =>
    /\ pc = "done"
    /\ gate = "SKIPPED"
    /\ ~scanned
    /\ issuesIds = NULL
    /\ posts = <<>>
    /\ failures = <<>>

C1_Witness ==
  /\ gate = "SKIPPED"
  /\ labels = <<"Skip-Issue", SkipLabel>>
  /\ Title = <<"#", "1">>
  /\ updates # <<>>

\* C2: without the skip label, when neither title nor body holds a reference
\* (absent, empty, or text without '#digits'), the run is over in
\* MISSING_REFERENCE: marked failed once, with the policy message, no comment.
C2_NoReferenceFails ==
  (LabelsFetched /\ SkipLabel \notin Range(labels)
     /\ ~HasReference(Title) /\ ~HasReference(Body)) =>
    /\ pc = "done"
    /\ gate = "MISSING_REFERENCE"
    /\ failures = <<MsgNoReference>>
    /\ posts = <<>>

C2_Witness ==
  /\ gate = "MISSING_REFERENCE"
  /\ Title = <<"#", "a">>
  /\ Body = <<>>
  /\ labels = <<"Skip-Issue">>

\* C3: without the skip label, when title or body holds a reference, the gate
\* is SATISFIED and exactly one comment was handed to the poster, listing the
\* references of title then body without repetitions in first-occurrence
\* order; the run is marked failed only if the comment call itself failed.
C3_ReferenceSatisfies ==
  (LabelsFetched /\ SkipLabel \notin Range(labels)
     /\ (HasReference(Title) \/ HasReference(Body))) =>
    /\ gate = "SATISFIED"
    /\ scanned
    /\ posts = << getPositiveCommentBody(
                    FirstOccurrences(References(Title) \o References(Body))) >>
    /\ failures \in {<<>>, <<MsgApiError>>,
                     <<"Comment response does not indicate success 300">>}
    /\ (failures # <<>> => pc = "done")

C3_Witness ==
  /\ pc = "done"
  /\ gate = "SATISFIED"
  /\ failures = <<>>
  /\ Title = <<"#", "2">>
  /\ Body = <<"#", "1">>
  /\ posts = << "Great! The PR references these issues: #2, #1 " \o Emojis >>

-----------------------------------------------------------------------------
(* C4..C9: the neutralizer *)

\* C4: every step leaves the number of suites and of check runs as it is and
\* leaves every check run unchanged that is not completed, not named 'Check
\* Commit Messages' or not in a suite of 'GitHub Actions'; and checks.update
\* is issued for no such run.
C4_OnlyTargetedRunsTouched ==
  [][ /\ Len(checkSuites') = Len(checkSuites)
      /\ \A s \in 1..Len(checkSuites) :
           /\ checkSuites'[s].app = checkSuites[s].app
           /\ Len(checkSuites'[s].check_runs) = Len(checkSuites[s].check_runs)
           /\ \A r \in 1..Len(checkSuites[s].check_runs) :
                ~Targeted(s, r) =>
                  checkSuites'[s].check_runs[r] = checkSuites[s].check_runs[r]
      /\ \A id \in Range(updates') : Targeted(id[1], id[2]) ]_vars

C4_Witness ==
  /\ pc = "getLabels"
  /\ \E s \in 1..Len(checkSuites) :
       /\ Len(checkSuites[s].check_runs) = 2
       /\ checkSuites[s].check_runs[1] =
            [name |-> CheckName, status |-> "in_progress", conclusion |-> NoConclusion]
       /\ checkSuites[s].check_runs[2] =
            [name |-> CheckName, status |-> "completed", conclusion |-> Neutral]
       /\ updates = << <<s, 2>> >>

\* C5 (as claimed): when markPreviousRunsAsNeutral has returned without error,
\* every completed 'Check Commit Messages' run of every 'GitHub Actions' suite
\* of the head commit has the conclusion neutral.
C5_AllTargetedRunsNeutral ==
  pc = "getLabels" =>
    \A id \in RunIds :
      Targeted(id[1], id[2]) =>
        checkSuites[id[1]].check_runs[id[2]].conclusion = Neutral

\* C6 (as claimed): a failing checks.update is caught and skipped, so a run
\* never ends on a checks.update call: after the call the loop goes on to the
\* next check run, the next suite, or the label gate.
C6_UpdateFailureIsSkipped ==
  (pc = "done" /\ calls # <<>>) => Last(calls) # "checks.update"

\* C7: when a 'GitHub Actions' suite reports more than 250 check runs, the run
\* never reads the labels, scans no text and posts no comment, and it ends
\* marked failed (with the ceiling message unless a call failed before); with
\* 250 or fewer in every such suite the ceiling failure does not occur.
C7_CeilingFailsRun ==
  LET over == \E s \in 1..Len(checkSuites) :
                /\ checkSuites[s].app = ActionsApp
                /\ checkSuites[s].total_count > RunsCeiling
  IN /\ over =>
          /\ pc \notin {"getLabels", "post"}
          /\ labels = NULL
          /\ ~scanned
          /\ posts = <<>>
          /\ gate = "START"
          /\ pc = "done" => failures \in {<<MsgTooManyRuns>>, <<MsgApiError>>}
     /\ ~over => MsgTooManyRuns \notin Range(failures)

C7_Witness ==
  /\ pc = "done"
  /\ failures = <<MsgTooManyRuns>>
  /\ updates # <<>>
  /\ Len(checkSuites) = 2
  /\ checkSuites[1].total_count = 250
  /\ checkSuites[2].total_count = 251

\* C8: the external calls of a run start with the neutralizer's; the label
\* fetch comes after the last neutralizer call, and whenever the labels are
\* read, a text is scanned, the gate has decided or a comment is posted, the
\* neutralizer has finished: every targeted run on the listed pages was
\* updated to neutral. This includes the runs that end SKIPPED or
\* MISSING_REFERENCE.
C8_NeutralizationFirst ==
  /\ calls # <<>> => calls[1] = "listSuitesForRef"
  /\ \A i \in 1..Len(calls) : \A j \in 1..Len(calls) :
       (calls[i] \in {"pulls.get", "POST comments"}
          /\ calls[j] \in {"listSuitesForRef", "listForSuite", "checks.update"})
         => j < i
  /\ (LabelsFetched \/ scanned \/ gate # "START" \/ posts # <<>>) =>
       /\ "pulls.get" \in Range(calls)
       /\ pending = <<>> /\ queue = <<>>
       /\ \A id \in RunIds :
            (Targeted(id[1], id[2]) /\ id[2] <= perPage) =>
              /\ id \in Range(updates)
              /\ checkSuites[id[1]].check_runs[id[2]].conclusion = Neutral

C8_Witness ==
  /\ events = 1
  /\ gate = "MISSING_REFERENCE"
  /\ updates = << <<1, 1>> >>
  /\ checkSuites[1].check_runs[1].conclusion = Neutral

\* C9: once an execution of markPreviousRunsAsNeutral has returned normally,
\* no later step changes a check run: a second execution issues its updates
\* again and leaves every conclusion as it is.
C9_SecondExecutionChangesNothing ==
  [][returns >= 1 => checkSuites' = checkSuites]_vars

C9_Witness ==
  /\ events = 2
  /\ returns = 2
  /\ Len(updates) = 2

-----------------------------------------------------------------------------
(* C10: the event context *)

Missing(value) == value = UNDEFINED \/ value = ""

LacksContext ==
  \/ Missing(payload.owner)
  \/ Missing(payload.repo)
  \/ ~payload.pull_request.present
  \/ ~payload.pull_request.head
  \/ Missing(payload.pull_request.sha)

ConfigurationErrors ==
  { "Missing value for owner", "Missing value for repository",
    "Missing value for pr_head_sha", MsgNotAPullRequest }
    \cup MsgsHeadUndefined

\* C10: when the context lacks the owner, the repository name, the pull
\* request or the head sha, no external call is made: no check run is updated
\* or changed, no comment is posted, and the run ends marked failed with one
\* message that names the missing piece, which is never the policy message.
C10_MissingContextAborts ==
  LacksContext =>
    /\ pc \in {"start", "done"}
    /\ calls = <<>>
    /\ updates = <<>>
    /\ posts = <<>>
    /\ checkSuites \in SmallServers
    /\ gate = "START"
    /\ pc = "done" =>
         /\ Len(failures) = 1
         /\ failures[1] \in ConfigurationErrors
         /\ failures[1] # MsgNoReference

C10_Witness ==
  /\ pc = "done"
  /\ payload.owner = "octocat"
  /\ payload.repo = "hello"
  /\ payload.pull_request.head
  /\ payload.pull_request.sha = ""
  /\ failures = <<"Missing value for pr_head_sha">>

-----------------------------------------------------------------------------
(* C11, C12: the comment *)

\* C11: a run posts at most one comment and the post is its last external
\* call: when it is issued the neutralizer has finished, the labels were
\* fetched and the references of title and body were all collected; no
\* checks.update, no pulls.get and no second post follows it, and at most one
\* response to it is awaited.
C11_CommentPostedLastAndOnce ==
  /\ Len(posts) <= 1
  /\ Cardinality({ i \in 1..Len(calls) : calls[i] = "POST comments" }) = Len(posts)
  /\ Len(responses) <= Len(posts)
  /\ posts # <<>> =>
       /\ Last(calls) = "POST comments"
       /\ "pulls.get" \in Range(calls)
       /\ pending = <<>> /\ queue = <<>>
       /\ LabelsFetched
       /\ scanned
       /\ issuesIds = References(Title) \o References(Body)
       /\ pc \in {"post", "done"}

C11_Witness ==
  /\ pc = "done"
  /\ responses = <<FirstNonSuccessStatus>>
  /\ calls = <<"listSuitesForRef", "listForSuite", "checks.update", "pulls.get",
               "POST comments">>
  /\ Title = <<"#", "1">>
  /\ Body = <<"#", "2">>

\* C12: once the gate is SATISFIED and the comment call has answered, the run
\* is marked failed, with the message that quotes the status, exactly when the
\* status is not a success status (2xx); after a success status the run is
\* over and not marked failed.
C12_NonSuccessStatusFails ==
  (gate = "SATISFIED" /\ responses # <<>>) =>
    /\ pc = "done"
    /\ IF Last(responses) \in 200..299
       THEN failures = <<>>
       ELSE failures = <<MsgCommentStatus(Last(responses))>>

C12_Witness ==
  /\ gate = "SATISFIED"
  /\ responses = <<FirstNonSuccessStatus>>
  /\ failures = <<"Comment response does not indicate success 300">>
  /\ Body = <<"#", "1">>

-----------------------------------------------------------------------------
(* C18, C19: what a failing step leaves behind, and what the gate tests *)

\* C18 (as claimed): when the run has failed on the ceiling of 250 check runs,
\* this run has issued no checks.update: no check run of any suite had its
\* conclusion rewritten by it.
C18_CeilingLeavesNoUpdate ==
  MsgTooManyRuns \in Range(failures) => updates = <<>>

\* C19 (as claimed): the collection handed to the emptiness test that decides
\* between MISSING_REFERENCE and SATISFIED has its duplicates collapsed.
C19_TestedCollectionIsCollapsed ==
  (scanned /\ issuesIds # NULL) => issuesIds = FirstOccurrences(issuesIds)

\* C19 (amended): the emptiness test is applied to the merged collection with
\* its duplicates still in it, and it decides as the test on the collapsed
\* collection would: MISSING_REFERENCE exactly when the references of title
\* and body, duplicates collapsed, are none, SATISFIED exactly when there is
\* one, also when all tokens found are the same one.
C19_DecisionAsOnCollapsed ==
  LET collapsed == FirstOccurrences(References(Title) \o References(Body))
  IN scanned =>
       /\ gate \in {"MISSING_REFERENCE", "SATISFIED"}
       /\ gate = "MISSING_REFERENCE" <=> Len(collapsed) = 0
       /\ gate = "SATISFIED" <=> Len(collapsed) >= 1
       /\ gate = "SATISFIED" => posts = <<getPositiveCommentBody(collapsed)>>

C19_Witness ==
  /\ gate = "SATISFIED"
  /\ Title = <<"#", "1">>
  /\ Body = <<"#", "1">>
  /\ issuesIds = <<"#1", "#1">>
  /\ posts = <<"Great! The PR references this issue: #1 " \o Emojis>>

-----------------------------------------------------------------------------
(* C13..C15, C17, C20: the functions *)

\* the non-absent arrays one after the other, in argument order
RECURSIVE Concatenation(_)
Concatenation(arrays) ==
  IF arrays = <<>> THEN <<>>
  ELSE Concatenation(SubSeq(arrays, 1, Len(arrays) - 1))
         \o (IF Last(arrays) = NULL THEN <<>> ELSE Last(arrays))

\* the items with ', ' between them
RECURSIVE CommaSeparated(_)
CommaSeparated(ids) ==
  IF Len(ids) = 1 THEN ids[1]
  ELSE CommaSeparated(SubSeq(ids, 1, Len(ids) - 1)) \o ", " \o Last(ids)

\* C13: getIssuesIdsFromText returns without error, for every text, the
\* substrings '#' followed by one or more digits, each taken with all its
\* digits, from left to right with repetitions kept; for an absent or empty
\* text and for a text without such a substring (a '#' not followed by a digit
\* included) it returns null.
C13_ScanReturnsAllTokensInOrder ==
  (call.fn = "getIssuesIdsFromText" /\ call.state = "returned") =>
    /\ call.thrown = ""
    /\ IF call.text = NULL \/ TokenStarts(call.text) = {}
       THEN call.result = NULL
       ELSE /\ call.result = References(call.text)
            /\ Len(call.result) = Cardinality(TokenStarts(call.text))

C13_Witness ==
  /\ call.fn = "getIssuesIdsFromText"
  /\ call.text = <<"#", "1", "#", "1">>
  /\ call.result = <<"#1", "#1">>

\* C14: distinct applied to what mergeArrays returned is the concatenation of
\* the non-absent arrays in argument order without the tokens that occurred
\* earlier: every token of the inputs is in it exactly once, and the tokens
\* stand in the order of their first occurrences.
C14_MergedSetIsFirstOccurrences ==
  (call.fn = "mergeArrays" /\ call.state = "distinct") =>
    LET all == Concatenation(call.arrays)
    IN /\ call.result = all
       /\ call.ids = FirstOccurrences(all)
       /\ \A t \in Range(all) :
            Cardinality({ i \in 1..Len(call.ids) : call.ids[i] = t }) = 1
       /\ Range(call.ids) = Range(all)

C14_Witness ==
  /\ call.state = "distinct"
  /\ call.arrays = << <<"#2", "#1">>, <<"#2", "#2">> >>
  /\ call.ids = <<"#2", "#1">>

\* C15: getPositiveCommentBody returns for one reference the singular message
\* with that reference, for two or more the plural message with all of them
\* in input order with ', ' between them, both ending with the emoji suffix;
\* for the empty list it throws and returns no message.
C15_CommentBodyForms ==
  (call.fn = "getPositiveCommentBody" /\ call.state = "returned") =>
    IF Len(call.ids) = 0
    THEN call.thrown = MsgEmptyIds /\ call.body = ""
    ELSE /\ call.thrown = ""
         /\ call.body =
              (IF Len(call.ids) = 1
               THEN "Great! The PR references this issue: " \o call.ids[1]
               ELSE "Great! The PR references these issues: " \o CommaSeparated(call.ids))
                \o " :sparkles: :cake: :sparkles:"

C15_Witness ==
  /\ call.fn = "getPositiveCommentBody"
  /\ call.ids = <<"#2", "#1", "#2">>
  /\ call.body = "Great! The PR references these issues: #2, #1, #2 :sparkles: :cake: :sparkles:"

\* C17 (as claimed): getIssueIdsFromCommitMessages returns the references of
\* all commit messages, in commit order, each at its first occurrence only;
\* the list is not empty when a commit message holds a reference.
C17_CommitReferencesReturned ==
  (call.fn = "getIssueIdsFromCommitMessages" /\ call.state = "returned"
     /\ call.thrown = "") =>
    /\ call.ids = FirstOccurrences(
                    Concatenation([i \in 1..Len(commits) |-> References(commits[i])]))
    /\ (\E i \in 1..Len(commits) : HasReference(commits[i])) => call.ids # <<>>

\* C20 (as claimed): mergeArrays called with absent arrays only, or with none,
\* returns the empty list, not null.
C20_AllAbsentMergesToEmptyList ==
  (call.fn = "mergeArrays" /\ call.state = "returned"
     /\ \A i \in 1..Len(call.arrays) : call.arrays[i] = NULL) =>
    call.result = <<>>

\* C20 (amended): mergeArrays called with absent arrays only, or with none,
\* returns null, which emptyOrNull reports as empty; it returns a list, empty
\* or not, exactly when one of the arrays is not absent.
C20_AllAbsentMergesToNull ==
  (call.fn = "mergeArrays" /\ call.state = "returned") =>
    /\ call.result = NULL <=> \A i \in 1..Len(call.arrays) : call.arrays[i] = NULL
    /\ call.result = NULL => emptyOrNull(call.result)
    /\ call.result # NULL => call.result = Concatenation(call.arrays)

C20_Witness ==
  /\ call.fn = "mergeArrays"
  /\ call.state = "returned"
  /\ call.arrays = <<NULL, NULL>>
  /\ call.result = NULL

-----------------------------------------------------------------------------
(* C16: the drafts that validate the commit messages *)

CommitsFetched == program \in Drafts /\ scanned

\* C16 (as claimed): once the commits of a pull request that has some were
\* read, the run is marked failed exactly when no commit message holds a
\* reference; one commit with a reference is enough for the run not to fail.
C16_FailsOnlyWhenNoCommitRefers ==
  (CommitsFetched /\ commits # <<>>) =>
    (failures # <<>> <=> \A i \in 1..Len(commits) : ~HasReference(commits[i]))

-----------------------------------------------------------------------------
(* C21, C22: the outcomes of run() *)

\* C21: run() never reaches getPositiveCommentBody with an empty list: a
\* comment body is built only when the gate is SATISFIED, from a list that is
\* not null and not empty, and no run fails with 'Expected a populated array
\* of issues ids.' or with 'Program flow error: issues ids must be present
\* here.'.
C21_ComposerNeverGetsEmptyList ==
  /\ MsgEmptyIds \notin Range(failures)
  /\ MsgProgramFlow \notin Range(failures)
  /\ posts # <<>> =>
       /\ gate = "SATISFIED"
       /\ issuesIds # NULL
       /\ Len(FirstOccurrences(issuesIds)) >= 1
  /\ (scanned /\ gate # "SATISFIED") =>
       (posts = <<>> /\ (issuesIds = NULL \/ issuesIds = <<>>))

C21_Witness ==
  /\ pc = "post"
  /\ gate = "SATISFIED"
  /\ Title = NULL
  /\ Body = <<"#", "2">>
  /\ issuesIds = <<"#2">>
  /\ Len(posts) = 1

\* what a run that is over has come to: one of the three verdicts of the gate,
\* or an abort before the gate decided
Outcome ==
  IF gate = "START" THEN "ABORTED" ELSE gate

\* the failure signal of a run that is over, by outcome
FailureSignalFitsOutcome ==
  /\ Len(failures) <= 1
  /\ pc = "done" =>
       /\ Outcome \in {"SKIPPED", "MISSING_REFERENCE", "SATISFIED", "ABORTED"}
       /\ Outcome = "ABORTED" => Len(failures) = 1
       /\ Outcome = "SKIPPED" => failures = <<>>
       /\ Outcome = "MISSING_REFERENCE" => failures = <<MsgNoReference>>
       /\ Outcome = "SATISFIED" =>
            (failures = <<>> <=> (responses # <<>> /\ Last(responses) \in 200..299))
  /\ pc # "done" => failures = <<>>

\* C22: when every awaited call returns or fails, every run of run() comes to
\* an end, in one of SKIPPED, MISSING_REFERENCE, SATISFIED or an abort; the
\* run is marked failed at most once, with one message, and not at all when
\* it ends SKIPPED or SATISFIED with a comment post that succeeded.
C22_RunEndsInOneOutcome ==
  /\ []FailureSignalFitsOutcome
  /\ [](pc # "done" => <>(pc = "done"))

C22_Witness ==
  /\ pc = "done"
  /\ events = 2
  /\ Len(checkSuites) = 2
  /\ Len(updates) = 4
  /\ gate = "SATISFIED"
  /\ responses = <<201>>
  /\ failures = <<>>

-----------------------------------------------------------------------------
(* C23: the label branch of the drafts *)

\* C23 (as claimed): when part_000 or part_001 runs on a 'labeled' or
\* 'unlabeled' event and returns from the label branch without failure, it
\* has issued one rerequestSuite per check suite listed for the head commit,
\* each suite once, and has neither read the labels nor the commits.
C23_EverySuiteRerequestedOnce ==
  (program \in {"part_000", "part_001"} /\ action \in {"labeled", "unlabeled"}
     /\ pc = "done" /\ failures = <<>>) =>
    /\ Len(rerequests) = Len(checkSuites)
    /\ \A s \in 1..Len(checkSuites) :
         Cardinality({ i \in 1..Len(rerequests) : rerequests[i] = s }) = 1
    /\ labels = NULL
    /\ ~scanned
    /\ reported = <<>>

====
